---- MODULE Spec2Model ----
(***************************************************************************)
(* Model of the CuratAI image-searching pipeline:                          *)
(*   graph/image_searching_graph.py      the LangGraph workflow            *)
(*   services/image_searching_service.py the resolvers and composers       *)
(*   models/image_searching_model.py     the state schema                  *)
(* Python values are encoded as tagged records so that None, {} and a      *)
(* populated dict stay distinguishable: [tag |-> "None"], [tag |-> "empty"]*)
(* and [tag |-> "dict", ...].  Lists are sequences.                        *)
(***************************************************************************)
EXTENDS Integers, Sequences, FiniteSets, TLC

VARIABLES albums, images, request, channels, pc, hist, call,
          response, cropped_faces, builds, runs

vars == <<albums, images, request, channels, pc, hist, call,
          response, cropped_faces, builds, runs>>

(***************************************************************************)
(* Bounds                                                                  *)
(***************************************************************************)
MaxImageId == 3
MaxFnId == 4
MaxLen == 3
MaxPersons == 3
MaxAlbums == 2
MaxPeople == 2

Ids == 1..MaxImageId

(***************************************************************************)
(* Python values                                                           *)
(***************************************************************************)
None == [tag |-> "None"]
EmptyDict == [tag |-> "empty"]

MkResult(ids, links) ==
    [tag |-> "dict", related_image_ids |-> ids, image_links |-> links]

\* Python truthiness of an Optional[Dict]: None and {} are falsy, a dict
\* with keys is truthy whatever its values.
Truthy(v) == v.tag \notin {"None", "empty"}

\* dict.get(key, []) on a result dict
IdsOf(r) == IF r.tag = "dict" THEN r.related_image_ids ELSE <<>>
LinksOf(r) == IF r.tag = "dict" THEN r.image_links ELSE <<>>

Range(s) == {s[i] : i \in DOMAIN s}

Min(a, b) == IF a < b THEN a ELSE b

\* list(a_set): the elements of the set, each once, in the iteration order
\* of the set (a fixed order per set).
RECURSIVE SetToSeq(_)
SetToSeq(S) ==
    IF S = {} THEN <<>>
    ELSE LET x == CHOOSE y \in S : TRUE
         IN <<x>> \o SetToSeq(S \ {x})

\* dict(zip(keys, vals)): pairs up to the shorter list, a later pair
\* overriding an earlier one with the same key.
ZipLen(keys, vals) == Min(Len(keys), Len(vals))
ZipKeys(keys, vals) == {keys[i] : i \in 1..ZipLen(keys, vals)}
ZipGet(keys, vals, k) ==
    LET last == CHOOSE i \in 1..ZipLen(keys, vals) :
                    /\ keys[i] = k
                    /\ \A j \in 1..ZipLen(keys, vals) : keys[j] = k => j <= i
    IN vals[last]

\* list(dict.fromkeys(s)): drop repeats, keep first occurrences in order.
RECURSIVE Dedup(_)
Dedup(s) ==
    IF s = <<>> THEN <<>>
    ELSE LET r == Dedup(SubSeq(s, 1, Len(s) - 1))
             x == s[Len(s)]
         IN IF x \in Range(r) THEN r ELSE Append(r, x)

Ok(result) == [ok |-> TRUE, result |-> result, error |-> ""]
Fail(msg) == [ok |-> FALSE, result |-> None, error |-> msg]

(***************************************************************************)
(* ImageSearchingService.combine_search_results                            *)
(***************************************************************************)
\* Variant: the scene result's link is preferred to the people result's.
CombinedLinks_scene_first(face_results, scene_results, common_ids) ==
    LET fk == IdsOf(face_results)
        fv == LinksOf(face_results)
        sk == IdsOf(scene_results)
        sv == LinksOf(scene_results)
        withLink == {i \in common_ids :
                        i \in ZipKeys(fk, fv) \/ i \in ZipKeys(sk, sv)}
    IN {IF i \in ZipKeys(sk, sv) THEN ZipGet(sk, sv, i) ELSE ZipGet(fk, fv, i) :
            i \in withLink}

\* for img_id in common_ids: face_map[img_id] if present, else
\* scene_map[img_id] if present; the links are collected in a set.
CombinedLinks(face_results, scene_results, common_ids) ==
    LET fk == IdsOf(face_results)
        fv == LinksOf(face_results)
        sk == IdsOf(scene_results)
        sv == LinksOf(scene_results)
        withLink == {i \in common_ids :
                        i \in ZipKeys(fk, fv) \/ i \in ZipKeys(sk, sv)}
    IN {IF i \in ZipKeys(fk, fv) THEN ZipGet(fk, fv, i) ELSE ZipGet(sk, sv, i) :
            i \in withLink}

\* Variant: the ids of either result (union) instead of the common ones.
combine_search_results_union(face_results, scene_results) ==
    IF ~Truthy(face_results) /\ ~Truthy(scene_results)
    THEN Fail("No search results provided")
    ELSE IF ~Truthy(face_results) THEN Ok(scene_results)
    ELSE IF ~Truthy(scene_results) THEN Ok(face_results)
    ELSE LET all_ids == Range(IdsOf(face_results)) \cup Range(IdsOf(scene_results))
         IN Ok(MkResult(SetToSeq(all_ids),
                        SetToSeq(CombinedLinks(face_results, scene_results,
                                               all_ids))))

\* Variant: no early return for a missing side, which then counts as an
\* empty set in the intersection.
combine_search_results_always_intersect(face_results, scene_results) ==
    IF ~Truthy(face_results) /\ ~Truthy(scene_results)
    THEN Fail("No search results provided")
    ELSE LET common_ids == Range(IdsOf(face_results)) \cap
                           Range(IdsOf(scene_results))
         IN Ok(MkResult(SetToSeq(common_ids),
                        SetToSeq(CombinedLinks(face_results, scene_results,
                                               common_ids))))

combine_search_results(face_results, scene_results) ==
    IF ~Truthy(face_results) /\ ~Truthy(scene_results)
    THEN Fail("No search results provided")
    ELSE IF ~Truthy(face_results) THEN Ok(scene_results)
    ELSE IF ~Truthy(scene_results) THEN Ok(face_results)
    ELSE LET face_ids == Range(IdsOf(face_results))
             scene_ids == Range(IdsOf(scene_results))
             common_ids == face_ids \cap scene_ids
         IN Ok(MkResult(SetToSeq(common_ids),
                        SetToSeq(CombinedLinks(face_results, scene_results,
                                               common_ids))))

(***************************************************************************)
(* ImageSearchingService.combine_face_detection_results                    *)
(* A person result is [person_name, related_image_ids, image_links].       *)
(***************************************************************************)
RECURSIVE IntersectAll(_)
IntersectAll(sets) ==
    IF Len(sets) = 1 THEN sets[1]
    ELSE sets[1] \cap IntersectAll(Tail(sets))

\* [set(person[field]) for person in results if person.get(field)]
NonEmptySets(face_detection_results, field) ==
    LET keep == SelectSeq(face_detection_results, LAMBDA p : p[field] # <<>>)
    IN [i \in DOMAIN keep |-> Range(keep[i][field])]

\* Variant: an empty intersection is reported as a failure.
combine_face_detection_results_fail_empty(face_detection_results) ==
    IF face_detection_results = <<>>
    THEN Fail("No face detection results provided")
    ELSE IF Len(face_detection_results) = 1
    THEN Ok(MkResult(face_detection_results[1].related_image_ids,
                     face_detection_results[1].image_links))
    ELSE LET sets_related_image_ids ==
                 NonEmptySets(face_detection_results, "related_image_ids")
             sets_image_links ==
                 NonEmptySets(face_detection_results, "image_links")
         IN IF sets_related_image_ids = <<>> \/ sets_image_links = <<>>
            THEN Fail("No valid related_image_ids or image_links found in face detection results")
            ELSE IF IntersectAll(sets_related_image_ids) = {}
            THEN Fail("No common images found")
            ELSE Ok(MkResult(SetToSeq(IntersectAll(sets_related_image_ids)),
                             SetToSeq(IntersectAll(sets_image_links))))

combine_face_detection_results(face_detection_results) ==
    IF face_detection_results = <<>>
    THEN Fail("No face detection results provided")
    ELSE IF Len(face_detection_results) = 1
    THEN Ok(MkResult(face_detection_results[1].related_image_ids,
                     face_detection_results[1].image_links))
    ELSE LET sets_related_image_ids ==
                 NonEmptySets(face_detection_results, "related_image_ids")
             sets_image_links ==
                 NonEmptySets(face_detection_results, "image_links")
         IN IF sets_related_image_ids = <<>> \/ sets_image_links = <<>>
            THEN Fail("No valid related_image_ids or image_links found in face detection results")
            ELSE Ok(MkResult(SetToSeq(IntersectAll(sets_related_image_ids)),
                             SetToSeq(IntersectAll(sets_image_links))))

(***************************************************************************)
(* The store.  albums and images are tables (sequences of rows); a select  *)
(* returns the matching rows in table order.                               *)
(***************************************************************************)
Projects == {"p1", "p2"}
Names == {"alice", "bob"}

Url(i) == "u" \o ToString(i)

DbError == "store unavailable"

\* self.db.table("albums").select("person_name").eq("project_id", ...)
get_people_names_from_supabase(tbl, project_id, dbOk) ==
    IF ~dbOk THEN Fail(DbError)
    ELSE LET data == SelectSeq(tbl, LAMBDA r : r.project_id = project_id)
         IN IF data = <<>>
            THEN Fail("Failed to fetch people names from albums")
            ELSE LET named == SelectSeq(data, LAMBDA r : r.person_name # "")
                 IN [ok |-> TRUE,
                     result |-> [i \in DOMAIN named |-> named[i].person_name],
                     error |-> ""]

\* The albums query filters on person_name only; response.data[0] is the
\* row the store returns first, which the query leaves unordered: `first`
\* is the position, among the matching rows, of the row returned first.
AlbumsOf(tbl, person_name) ==
    SelectSeq(tbl, LAMBDA r : r.person_name = person_name)

get_related_images_for_person(tbl, imgs, person_name, dbOk, first) ==
    LET data == AlbumsOf(tbl, person_name)
    IN IF ~dbOk THEN Fail(DbError)
       ELSE IF data = <<>>
       THEN Fail("No albums found for person: " \o person_name)
       ELSE LET album == data[IF first \in DOMAIN data THEN first ELSE 1]
                related_image_ids == album.image_group
                rows == SelectSeq(imgs,
                            LAMBDA r : r.id \in Range(related_image_ids))
                withUrl == SelectSeq(rows, LAMBDA r : r.image_url # "")
            IN IF rows = <<>>
               THEN Fail("No images found for related_image_ids of person: "
                         \o person_name)
               ELSE Ok(MkResult(related_image_ids,
                                [i \in DOMAIN withUrl |-> withUrl[i].image_url]))

(***************************************************************************)
(* ImageSearchingService.get_images_based_on_scene                         *)
(* image_embeddings is modelled by its format: "null", "list", "str" (both *)
(* parse), "badstr", "badlist" (parsing raises), "other" (skipped).        *)
(* Cosine similarities are integers scaled by 100; sim maps an image id to *)
(* the similarity of its embedding to the scene's text embedding.          *)
(***************************************************************************)
similarity_threshold == 25

\* related_images.sort(key=similarity_score, reverse=True): stable.
RECURSIVE InsertDesc(_, _, _)
InsertDesc(sorted, r, sim) ==
    IF sorted = <<>> THEN <<r>>
    ELSE IF sim[sorted[1].id] >= sim[r.id]
         THEN <<sorted[1]>> \o InsertDesc(Tail(sorted), r, sim)
         ELSE <<r>> \o sorted

RECURSIVE SortDesc(_, _)
SortDesc(rows, sim) ==
    IF rows = <<>> THEN <<>>
    ELSE InsertDesc(SortDesc(SubSeq(rows, 1, Len(rows) - 1), sim),
                    rows[Len(rows)], sim)

\* Variant: the kept images stay in the order of the table.
get_images_based_on_scene_unsorted(imgs, project_id, dbOk, embedOk, sim) ==
    LET data == SelectSeq(imgs, LAMBDA r : r.project_id = project_id)
        valid_items == SelectSeq(data, LAMBDA r : r.image_embeddings # "null")
        image_metadata ==
            SelectSeq(valid_items, LAMBDA r : r.image_embeddings # "other")
        related_images ==
            SelectSeq(image_metadata,
                      LAMBDA r : sim[r.id] >= similarity_threshold)
    IN IF ~dbOk THEN Fail(DbError)
       ELSE IF data = <<>>
       THEN Fail("No images found for project_id: " \o project_id)
       ELSE IF valid_items = <<>>
       THEN Fail("No images with embeddings found for project_id: " \o project_id)
       ELSE IF \E i \in DOMAIN valid_items :
                  valid_items[i].image_embeddings \in {"badstr", "badlist"}
       THEN Fail("could not convert string to float")
       ELSE IF image_metadata = <<>>
       THEN Fail("No valid embeddings found for project_id: " \o project_id)
       ELSE IF ~embedOk THEN Fail("text embedding failed")
       ELSE Ok(MkResult([i \in DOMAIN related_images |-> related_images[i].id],
                        [i \in DOMAIN related_images |->
                             related_images[i].image_url]))

get_images_based_on_scene(imgs, project_id, dbOk, embedOk, sim) ==
    LET data == SelectSeq(imgs, LAMBDA r : r.project_id = project_id)
        valid_items == SelectSeq(data, LAMBDA r : r.image_embeddings # "null")
        image_metadata ==
            SelectSeq(valid_items, LAMBDA r : r.image_embeddings # "other")
        related_images ==
            SortDesc(SelectSeq(image_metadata,
                         LAMBDA r : sim[r.id] >= similarity_threshold), sim)
    IN IF ~dbOk THEN Fail(DbError)
       ELSE IF data = <<>>
       THEN Fail("No images found for project_id: " \o project_id)
       ELSE IF valid_items = <<>>
       THEN Fail("No images with embeddings found for project_id: " \o project_id)
       ELSE IF \E i \in DOMAIN valid_items :
                  valid_items[i].image_embeddings \in {"badstr", "badlist"}
       THEN Fail("could not convert string to float")
       ELSE IF image_metadata = <<>>
       THEN Fail("No valid embeddings found for project_id: " \o project_id)
       ELSE IF ~embedOk THEN Fail("text embedding failed")
       ELSE Ok(MkResult([i \in DOMAIN related_images |-> related_images[i].id],
                        [i \in DOMAIN related_images |->
                             related_images[i].image_url]))

(***************************************************************************)
(* The pipeline state and the LangGraph channels.                          *)
(* Every key of ImageSearchingState is a channel.  A node is handed a dict *)
(* of the channels that hold a value and returns a dict; the keys of the   *)
(* returned dict that are channels are written back, any other key is      *)
(* dropped.  errors is declared Annotated[List[str], operator.add]: its    *)
(* write is channel value + returned value; every other key is replaced.   *)
(* The dict handed to a node holds the channel's own list object, so an    *)
(* in-place append by the node is seen by the channel (chan).              *)
(***************************************************************************)
\* Variant: the schema also declares scene_results.
StateKeys_with_scene_results ==
    {"people_names", "query_str", "project_id", "face_detection_results",
     "face_detection_results_combined", "search_results",
     "json_query_extraction", "errors", "scene_results"}

StateKeys ==
    {"people_names", "query_str", "project_id", "face_detection_results",
     "face_detection_results_combined", "search_results",
     "json_query_extraction", "errors"}

Get(d, k, default) == IF k \in DOMAIN d THEN d[k] ELSE default

Put(d, k, v) == [x \in DOMAIN d \cup {k} |-> IF x = k THEN v ELSE d[x]]

ReadState(ch) == [d |-> ch, chan |-> ch["errors"], aliased |-> TRUE]

ApplyWrites(ch, L) ==
    LET written == DOMAIN L.d \cap StateKeys
    IN [k \in DOMAIN ch \cup written |->
            IF k \notin written THEN ch[k]
            ELSE IF k = "errors" THEN L.chan \o L.d[k]
            ELSE L.d[k]]

\* ImageSearchingGraph.add_error
add_error(L, msg) ==
    LET cur == Get(L.d, "errors", <<>>)
    IN IF cur = <<>>
       THEN [L EXCEPT !.d = Put(L.d, "errors", Dedup(<<msg>>)),
                      !.aliased = FALSE]
       ELSE [L EXCEPT !.d = Put(L.d, "errors", Dedup(Append(cur, msg))),
                      !.chan = IF L.aliased THEN Append(cur, msg) ELSE L.chan,
                      !.aliased = FALSE]

\* The body of a node's try block ends by returning (exc = "") or by
\* raising (exc = str(e)); L is the state dict as the body left it.
Returned(L) == [L |-> L, exc |-> ""]
Raised(L, msg) == [L |-> L, exc |-> msg]

\* Variant: the handler lets the exception leave the node.
Catch_reraise(body, prefix) ==
    [L |-> body.L, escaped |-> body.exc # ""]

\* except Exception as e: self.add_error(state, prefix + str(e)); return state
Catch(body, prefix) ==
    IF body.exc = "" THEN [L |-> body.L, escaped |-> FALSE]
    ELSE [L |-> add_error(body.L, prefix \o body.exc), escaped |-> FALSE]

NoneTypeError == "'NoneType' object has no attribute 'get'"

(***************************************************************************)
(* Nodes of ImageSearchingGraph                                            *)
(***************************************************************************)
_get_people_names_from_supabase_node(L, tbl, dbOk) ==
    LET r == get_people_names_from_supabase(tbl, L.d["project_id"], dbOk)
        body == IF r.ok
                THEN Returned([L EXCEPT !.d = Put(L.d, "people_names", r.result)])
                ELSE Raised([L EXCEPT !.d = Put(L.d, "people_names", <<>>)],
                            r.error)
    IN Catch(body, "Error in _get_people_names_from_supabase_node: ")

\* str(a_list) for the lists of the model
RECURSIVE Joined(_)
Joined(s) ==
    IF s = <<>> THEN ""
    ELSE IF Len(s) = 1 THEN "'" \o s[1] \o "'"
    ELSE "'" \o s[1] \o "', " \o Joined(Tail(s))

StrList(s) == "[" \o Joined(s) \o "]"

\* Variant: the errors list of the output is checked before the extraction
\* is stored.
_get_data_from_search_query_node_check_first(L, llm) ==
    IF L.d["query_str"] = "" THEN Catch(Returned(L), "")
    ELSE IF llm.kind = "raise"
    THEN Catch(Raised(L, "language model unavailable"),
               "Error in _get_data_from_search_query_node: ")
    ELSE LET search_result == [tag |-> "dict", people |-> llm.people,
                               emotions |-> llm.emotions, scene |-> llm.scene]
             inner ==
                 IF llm.kind = "unparsable"
                 THEN Raised(L, "Failed to extract JSON data from LLM output")
                 ELSE IF llm.errors # <<>>
                 THEN Raised(L, StrList(llm.errors))
                 ELSE Returned([L EXCEPT !.d = Put(L.d, "json_query_extraction",
                                                   search_result)])
         IN Catch(Returned(Catch(inner,
                     "Error extracting JSON from LLM output: ").L),
                  "Error in _get_data_from_search_query_node: ")

\* llm is what the language-model call and the parser produce:
\*   [kind |-> "raise"]       ainvoke raises
\*   [kind |-> "unparsable"]  extract_json_from_llm_output returns None
\*   [kind |-> "json", people, emotions, scene, errors]
_get_data_from_search_query_node(L, llm) ==
    IF L.d["query_str"] = "" THEN Catch(Returned(L), "")
    ELSE IF llm.kind = "raise"
    THEN Catch(Raised(L, "language model unavailable"),
               "Error in _get_data_from_search_query_node: ")
    ELSE LET search_result == [tag |-> "dict", people |-> llm.people,
                               emotions |-> llm.emotions, scene |-> llm.scene]
             inner ==
                 IF llm.kind = "unparsable"
                 THEN Raised(L, "Failed to extract JSON data from LLM output")
                 ELSE IF llm.errors # <<>>
                 THEN Raised([L EXCEPT !.d = Put(L.d, "json_query_extraction",
                                                 search_result)],
                             StrList(llm.errors))
                 ELSE Returned([L EXCEPT !.d = Put(L.d, "json_query_extraction",
                                                   search_result)])
         IN Catch(Returned(Catch(inner,
                     "Error extracting JSON from LLM output: ").L),
                  "Error in _get_data_from_search_query_node: ")

\* Variant: a failing lookup is skipped and the loop goes on.
RECURSIVE LookupPeople_skip(_, _, _, _, _, _)
LookupPeople_skip(tbl, imgs, people, dbFail, first, acc) ==
    IF people = <<>> THEN [ok |-> TRUE, items |-> acc, error |-> ""]
    ELSE LET name == people[1]
             r == get_related_images_for_person(tbl, imgs, name,
                      name \notin dbFail, first[name])
         IN LookupPeople_skip(tbl, imgs, Tail(people), dbFail, first,
                IF r.ok
                THEN Append(acc, [person_name |-> name,
                                  related_image_ids |-> IdsOf(r.result),
                                  image_links |-> LinksOf(r.result)])
                ELSE acc)

\* for name in people_names: the loop stops at the first failing lookup.
RECURSIVE LookupPeople(_, _, _, _, _, _)
LookupPeople(tbl, imgs, people, dbFail, first, acc) ==
    IF people = <<>> THEN [ok |-> TRUE, items |-> acc, error |-> ""]
    ELSE LET name == people[1]
             r == get_related_images_for_person(tbl, imgs, name,
                      name \notin dbFail, first[name])
         IN IF r.ok
            THEN LookupPeople(tbl, imgs, Tail(people), dbFail, first,
                     Append(acc, [person_name |-> name,
                                  related_image_ids |-> IdsOf(r.result),
                                  image_links |-> LinksOf(r.result)]))
            ELSE [ok |-> FALSE, items |-> acc, error |-> r.error]

\* Variant: a query that names an emotion is not looked up by person.
_searching_based_on_people_node_emotions(L, tbl, imgs, dbFail, first) ==
    LET jqe == Get(L.d, "json_query_extraction", EmptyDict)
        people_names == IF jqe.tag = "dict" THEN jqe.people ELSE <<>>
        emotions == IF jqe.tag = "dict" THEN jqe.emotions ELSE <<>>
        looked == LookupPeople(tbl, imgs, people_names, dbFail, first, <<>>)
        withResults == [L EXCEPT !.d = Put(L.d, "face_detection_results",
                                  [tag |-> "list", items |-> looked.items])]
        combined == combine_face_detection_results(looked.items)
        body ==
            IF jqe.tag = "None" THEN Raised(L, NoneTypeError)
            ELSE IF people_names = <<>> \/ emotions # <<>> THEN Returned(L)
            ELSE IF ~looked.ok THEN Raised(L, looked.error)
            ELSE IF combined.ok
            THEN Returned([withResults EXCEPT !.d =
                     Put(withResults.d, "face_detection_results_combined",
                         combined.result)])
            ELSE Raised(withResults, combined.error)
    IN Catch(body, "_searching_based_on_people_node: ")

_searching_based_on_people_node(L, tbl, imgs, dbFail, first) ==
    LET jqe == Get(L.d, "json_query_extraction", EmptyDict)
        people_names == IF jqe.tag = "dict" THEN jqe.people ELSE <<>>
        looked == LookupPeople(tbl, imgs, people_names, dbFail, first, <<>>)
        withResults == [L EXCEPT !.d = Put(L.d, "face_detection_results",
                                  [tag |-> "list", items |-> looked.items])]
        combined == combine_face_detection_results(looked.items)
        body ==
            IF jqe.tag = "None" THEN Raised(L, NoneTypeError)
            ELSE IF people_names = <<>> THEN Returned(L)
            ELSE IF ~looked.ok THEN Raised(L, looked.error)
            ELSE IF combined.ok
            THEN Returned([withResults EXCEPT !.d =
                     Put(withResults.d, "face_detection_results_combined",
                         combined.result)])
            ELSE Raised(withResults, combined.error)
    IN Catch(body, "_searching_based_on_people_node: ")

_searching_based_on_scene_node(L, imgs, dbOk, embedOk, sim) ==
    LET jqe == Get(L.d, "json_query_extraction", EmptyDict)
        scene_description == IF jqe.tag = "dict" THEN jqe.scene ELSE ""
        r == get_images_based_on_scene(imgs, L.d["project_id"], dbOk,
                                       embedOk, sim)
        body ==
            IF jqe.tag = "None" THEN Raised(L, NoneTypeError)
            ELSE IF scene_description = "" THEN Returned(L)
            ELSE IF r.ok
            THEN Returned([L EXCEPT !.d = Put(L.d, "scene_results", r.result)])
            ELSE Raised(L, r.error)
    IN Catch(body, "_searching_based_on_scene_node: ")

\* Variant: a failing composer is ignored, the state is returned as it is.
_combine_searching_results_node_silent(L) ==
    LET r == combine_search_results(
                 Get(L.d, "face_detection_results_combined", EmptyDict),
                 Get(L.d, "scene_results", EmptyDict))
        body == IF ~r.ok THEN Returned(L)
                ELSE Returned([L EXCEPT !.d = Put(L.d, "search_results",
                                                  r.result)])
    IN Catch(body, "_combine_searching_results_node: ")

_combine_searching_results_node(L) ==
    LET r == combine_search_results(
                 Get(L.d, "face_detection_results_combined", EmptyDict),
                 Get(L.d, "scene_results", EmptyDict))
        body == IF ~r.ok THEN Raised(L, r.error)
                ELSE Returned([L EXCEPT !.d = Put(L.d, "search_results",
                                                  r.result)])
    IN Catch(body, "_combine_searching_results_node: ")

(***************************************************************************)
(* The graph: _build_graph's edges, and the request that starts a run.     *)
(***************************************************************************)
NodeOrder ==
    <<"get_people_names_from_supabase", "get_data_from_search_query",
      "searching_based_on_people", "searching_based_on_scene",
      "combine_searching_results">>

\* Variant: the people node's edge leads to the composer, past the scene
\* node.
NextNode_skip(n) ==
    CASE n = "START" -> "get_people_names_from_supabase"
      [] n = "get_people_names_from_supabase" -> "get_data_from_search_query"
      [] n = "get_data_from_search_query" -> "searching_based_on_people"
      [] n = "searching_based_on_people" -> "combine_searching_results"
      [] n = "searching_based_on_scene" -> "combine_searching_results"
      [] n = "combine_searching_results" -> "END"

\* workflow.add_edge(a, b)
NextNode(n) ==
    CASE n = "START" -> "get_people_names_from_supabase"
      [] n = "get_people_names_from_supabase" -> "get_data_from_search_query"
      [] n = "get_data_from_search_query" -> "searching_based_on_people"
      [] n = "searching_based_on_people" -> "searching_based_on_scene"
      [] n = "searching_based_on_scene" -> "combine_searching_results"
      [] n = "combine_searching_results" -> "END"

\* image_searching: the initial state handed to graph.ainvoke
initial_state(req) ==
    [query_str |-> req.search_query,
     project_id |-> req.project_id,
     face_detection_results |-> None,
     face_detection_results_combined |-> None,
     search_results |-> None,
     json_query_extraction |-> None,
     scene_results |-> None,
     errors |-> <<>>]

\* Variant: the request is reported as failed only when it has no
\* search_results.
image_searching_fail_on_no_result(result) ==
    IF result["search_results"] = None
    THEN [status_code |-> 500, detail |-> result["errors"], result |-> None]
    ELSE [status_code |-> 200, detail |-> <<>>,
          result |-> result["search_results"]]

\* image_searching: what the endpoint answers for the final state of the
\* graph; the HTTPException it raises is not a ValidationException and
\* reaches the client as status 500 with detail {"errors": [...]}.
image_searching(result) ==
    IF Len(result["errors"]) > 0
    THEN [status_code |-> 500, detail |-> result["errors"], result |-> None]
    ELSE [status_code |-> 200, detail |-> <<>>,
          result |-> result["search_results"]]

NoResponse == [status_code |-> 0, detail |-> <<>>, result |-> None]

\* The channels before the input is written: errors starts as list().
EmptyChannels == [k \in {"errors"} |-> <<>>]

(***************************************************************************)
(* Inputs of the model                                                     *)
(***************************************************************************)
ProjectOf(i) == IF i = MaxImageId THEN "p2" ELSE "p1"

RECURSIVE Ascending(_)
Ascending(S) ==
    IF S = {} THEN <<>>
    ELSE LET m == CHOOSE x \in S : \A y \in S : x <= y
         IN <<m>> \o Ascending(S \ {m})

SeqsUpTo(S, n) == UNION {[1..k -> S] : k \in 0..n}

ImageRow(i) ==
    [id |-> i, project_id |-> ProjectOf(i), image_url |-> Url(i),
     image_embeddings |-> "list"]

\* The images table, with every image stored or with image 1 deleted.
ImageTables ==
    {[i \in 1..MaxImageId |-> ImageRow(i)],
     [i \in 1..(MaxImageId - 1) |-> ImageRow(i + 1)]}

\* An album row as update_albums_table writes it: a non-empty group of
\* images of the row's project.
GroupsOf(p) == {h \in SUBSET Ids : h # {} /\ \A i \in h : ProjectOf(i) = p}

AlbumRows ==
    UNION {{[project_id |-> p, person_name |-> n, image_group |-> Ascending(g)] :
               n \in Names, g \in GroupsOf(p)} : p \in Projects}

AlbumTables == SeqsUpTo(AlbumRows, MaxAlbums)

\* search_query is a required form field: the endpoint never runs the
\* graph on an empty query.
Queries == {"pictures of alice smiling at a wedding"}

Scenes == {"", "beach"}
Emotions == {<<>>, <<"smiling">>}
LlmErrors == {<<>>, <<"unknown person">>}

LlmOutcomes ==
    {[kind |-> k, people |-> <<>>, emotions |-> <<>>, scene |-> "",
      errors |-> <<>>] : k \in {"raise", "unparsable"}}
    \cup
    {[kind |-> "json", people |-> p, emotions |-> e, scene |-> s,
      errors |-> er] :
        p \in SeqsUpTo(Names, MaxPeople), e \in Emotions, s \in Scenes,
        er \in LlmErrors}

\* Scaled similarities the text/image embedding models may produce.
SimValues == {20, 90}

(***************************************************************************)
(* Specification of one pipeline run                                       *)
(* hist records what the run did: the nodes run, the names looked up, the  *)
(* per-person results obtained, what the Scene Resolver returned, and the  *)
(* nodes in which a call failed or raised.                                 *)
(***************************************************************************)
NoCall == [op |-> "none"]

InitHist ==
    [trace |-> <<>>, lookups |-> <<>>, people_out |-> <<>>,
     scene_out |-> None, failed |-> {}, llm |-> [kind |-> "none"]]

Init ==
    /\ albums \in AlbumTables
    /\ images \in ImageTables
    /\ request \in [project_id : {"p1"}, search_query : Queries]
    /\ channels = EmptyChannels
    /\ pc = "START"
    /\ hist = InitHist
    /\ call = NoCall
    /\ response = NoResponse
    /\ cropped_faces = <<>>
    /\ runs = <<>>
    /\ builds = <<>>

FailedIf(cond) == IF cond THEN hist.failed \cup {pc} ELSE hist.failed

\* Variant: the step of the people node also empties the albums table.
Step_writes(node, out, h) ==
    /\ channels' = IF out.escaped THEN channels ELSE ApplyWrites(channels, out.L)
    /\ pc' = IF out.escaped THEN "raised" ELSE NextNode(node)
    /\ hist' = [h EXCEPT !.trace = Append(hist.trace, node)]
    /\ albums' = IF node = "searching_based_on_people" THEN <<>> ELSE albums
    /\ UNCHANGED <<images, request, call, response, cropped_faces,
                   builds, runs>>

\* A node has run: write its returned dict to the channels and follow the
\* node's edge, or leave the graph with the exception.
Step(node, out, h) ==
    /\ channels' = IF out.escaped THEN channels ELSE ApplyWrites(channels, out.L)
    /\ pc' = IF out.escaped THEN "raised" ELSE NextNode(node)
    /\ hist' = [h EXCEPT !.trace = Append(hist.trace, node)]
    /\ UNCHANGED <<albums, images, request, call, response, cropped_faces,
                   builds, runs>>

\* graph.ainvoke(initial_state)
Invoke ==
    /\ pc = "START"
    /\ channels' = ApplyWrites(channels,
                       [d |-> initial_state(request), chan |-> channels["errors"],
                        aliased |-> FALSE])
    /\ pc' = NextNode("START")
    /\ UNCHANGED <<albums, images, request, hist, call, response,
                   cropped_faces, builds, runs>>

FetchKnownPeople ==
    /\ pc = "get_people_names_from_supabase"
    /\ \E dbOk \in BOOLEAN :
         LET r == get_people_names_from_supabase(albums,
                      channels["project_id"], dbOk)
         IN Step(pc, _get_people_names_from_supabase_node(
                         ReadState(channels), albums, dbOk),
                 [hist EXCEPT !.failed = FailedIf(~r.ok)])

InterpretQuery ==
    /\ pc = "get_data_from_search_query"
    /\ \E llm \in LlmOutcomes :
         Step(pc, _get_data_from_search_query_node(ReadState(channels), llm),
              [hist EXCEPT !.llm = llm,
                           !.failed = FailedIf(
                   channels["query_str"] # "" /\
                   (llm.kind # "json" \/ llm.errors # <<>>))])

\* The store outcomes that matter to ResolvePeople: the names whose lookup
\* raises and, per name, which of its album rows the store returns first.
PeopleOutcomes(people) ==
    {o \in [dbFail : SUBSET Range(people), first : [Names -> 1..MaxAlbums]] :
        \A n \in Names :
            \/ o.first[n] = 1
            \/ n \in Range(people) /\ o.first[n] <= Len(AlbumsOf(albums, n))}

ResolvePeople ==
    /\ pc = "searching_based_on_people"
    /\ LET jqe == channels["json_query_extraction"]
           people == IF jqe.tag = "dict" THEN jqe.people ELSE <<>>
       IN \E o \in PeopleOutcomes(people) :
            LET looked == LookupPeople(albums, images, people, o.dbFail,
                                       o.first, <<>>)
                asked == SubSeq(people, 1,
                             Min(Len(people), Len(looked.items) + 1))
                comb == combine_face_detection_results(looked.items)
            IN Step(pc, _searching_based_on_people_node(ReadState(channels),
                            albums, images, o.dbFail, o.first),
                    [hist EXCEPT !.lookups = asked,
                                 !.people_out = looked.items,
                                 !.failed = FailedIf(jqe.tag = "None" \/
                                     (people # <<>> /\ (~looked.ok \/ ~comb.ok)))])

\* The outcomes that matter to ResolveScene: whether the store and the text
\* embedding answer, and the similarity of each image of the project.
NoSim == [i \in Ids |-> 0]

SceneOutcomes(called, project_id) ==
    IF ~called THEN {[dbOk |-> TRUE, embedOk |-> TRUE, sim |-> NoSim]}
    ELSE {[dbOk |-> FALSE, embedOk |-> TRUE, sim |-> NoSim],
          [dbOk |-> TRUE, embedOk |-> FALSE, sim |-> NoSim]}
         \cup
         {[dbOk |-> TRUE, embedOk |-> TRUE, sim |-> sm] :
             sm \in {f \in [Ids -> SimValues \cup {0}] :
                        \A i \in Ids : f[i] = 0 <=> ProjectOf(i) # project_id}}

ResolveScene ==
    /\ pc = "searching_based_on_scene"
    /\ LET jqe == channels["json_query_extraction"]
           scene == IF jqe.tag = "dict" THEN jqe.scene ELSE ""
       IN \E o \in SceneOutcomes(scene # "", channels["project_id"]) :
            LET r == get_images_based_on_scene(images, channels["project_id"],
                         o.dbOk, o.embedOk, o.sim)
            IN Step(pc, _searching_based_on_scene_node(ReadState(channels),
                            images, o.dbOk, o.embedOk, o.sim),
                    [hist EXCEPT !.scene_out =
                                     IF scene # "" /\ r.ok THEN r.result ELSE None,
                                 !.failed = FailedIf(jqe.tag = "None" \/
                                     (scene # "" /\ ~r.ok))])

ComposeResults ==
    /\ pc = "combine_searching_results"
    /\ LET r == combine_search_results(
                    Get(channels, "face_detection_results_combined", EmptyDict),
                    Get(channels, "scene_results", EmptyDict))
       IN Step(pc, _combine_searching_results_node(ReadState(channels)),
               [hist EXCEPT !.failed = FailedIf(~r.ok)])

\* graph.ainvoke has returned the final state: the endpoint answers.
Respond ==
    /\ pc = "END"
    /\ response = NoResponse
    /\ response' = image_searching(channels)
    /\ UNCHANGED <<albums, images, request, channels, pc, hist, call,
                   cropped_faces, builds, runs>>

Next ==
    \/ Invoke
    \/ FetchKnownPeople
    \/ InterpretQuery
    \/ ResolvePeople
    \/ ResolveScene
    \/ ComposeResults
    \/ Respond

Spec == Init /\ [][Next]_vars

Done == pc = "END"

(***************************************************************************)
(* Specification of direct calls of the two composers.  Init draws the     *)
(* arguments, the action applies the function.                             *)
(***************************************************************************)
FnIds == 1..MaxFnId

\* A result dict whose links are those of its ids, taken from the url
\* family v.
ResultOf(ids, v) == MkResult(ids, [i \in DOMAIN ids |-> v \o ToString(ids[i])])

ResultInputs ==
    {None, EmptyDict} \cup
    {ResultOf(ids, v) : ids \in SeqsUpTo(FnIds, MaxLen), v \in {"u", "w"}}

\* A people result with one link less than ids: what
\* get_related_images_for_person returns when the row of an album image is
\* missing from the images table.
ResultShort(ids, v) ==
    MkResult(ids, [i \in 1..(Len(ids) - 1) |-> v \o ToString(ids[i])])

ShortResultInputs ==
    {ResultShort(ids, "u") : ids \in SeqsUpTo(FnIds, MaxLen) \ {<<>>}}

PersonResult(k, g) ==
    [person_name |-> ToString(k), related_image_ids |-> Ascending(g),
     image_links |-> [i \in DOMAIN Ascending(g) |-> Url(Ascending(g)[i])]]

PersonInputs ==
    UNION {{[k \in 1..n |-> PersonResult(k, gs[k])] : gs \in [1..n -> SUBSET Ids]} :
              n \in 0..MaxPersons}

Pending == Fail("pending")

InitFn ==
    /\ albums = <<>>
    /\ images = <<>>
    /\ request = [project_id |-> "p1", search_query |-> ""]
    /\ channels = EmptyChannels
    /\ pc = "direct"
    /\ hist = InitHist
    /\ response = NoResponse
    /\ cropped_faces = <<>>
    /\ runs = <<>>
    /\ builds = <<>>
    /\ call \in {[op |-> "combine_search_results", face |-> f, scene |-> sc,
                  people |-> <<>>, done |-> FALSE, out |-> Pending] :
                     f \in ResultInputs \cup ShortResultInputs,
                     sc \in ResultInputs}
                \cup
                {[op |-> "combine_face_detection_results", face |-> None,
                  scene |-> None, people |-> ps, done |-> FALSE,
                  out |-> Pending] : ps \in PersonInputs}

CallCombineSearchResults ==
    /\ call.op = "combine_search_results"
    /\ ~call.done
    /\ call' = [call EXCEPT !.done = TRUE,
                            !.out = combine_search_results(call.face, call.scene)]
    /\ UNCHANGED <<albums, images, request, channels, pc, hist, response,
                   cropped_faces, builds, runs>>

CallCombineFaceDetectionResults ==
    /\ call.op = "combine_face_detection_results"
    /\ ~call.done
    /\ call' = [call EXCEPT !.done = TRUE,
                            !.out = combine_face_detection_results(call.people)]
    /\ UNCHANGED <<albums, images, request, channels, pc, hist, response,
                   cropped_faces, builds, runs>>

NextFn ==
    \/ CallCombineSearchResults
    \/ CallCombineFaceDetectionResults

SpecFn == InitFn /\ [][NextFn]_vars

CalledSearch == call.op = "combine_search_results" /\ call.done
CalledFaces == call.op = "combine_face_detection_results" /\ call.done

NoRepeats(s) == Cardinality(Range(s)) = Len(s)

\* C1: when both the people result and the scene result are present,
\* combine_search_results succeeds and its related_image_ids are exactly
\* the ids that occur in both results, each once.
C1_ComposerIntersection ==
    (CalledSearch /\ Truthy(call.face) /\ Truthy(call.scene)) =>
        /\ call.out.ok
        /\ Range(IdsOf(call.out.result)) =
               Range(IdsOf(call.face)) \cap Range(IdsOf(call.scene))
        /\ NoRepeats(IdsOf(call.out.result))

\* The spec's example, {1,2,3} and {2,3,4}, has been combined to {2,3}.
C1_Witness ==
    /\ CalledSearch
    /\ call.face = ResultOf(<<1, 2, 3>>, "u")
    /\ call.scene = ResultOf(<<2, 3, 4>>, "u")
    /\ Range(IdsOf(call.out.result)) = {2, 3}

\* C2: with exactly one side present, combine_search_results returns that
\* side unchanged (same ids, same links, same order).
C2_Passthrough ==
    /\ (CalledSearch /\ Truthy(call.face) /\ ~Truthy(call.scene)) =>
           (call.out.ok /\ call.out.result = call.face)
    /\ (CalledSearch /\ ~Truthy(call.face) /\ Truthy(call.scene)) =>
           (call.out.ok /\ call.out.result = call.scene)

\* A people result with ids was passed through against a missing scene.
C2_Witness ==
    /\ CalledSearch
    /\ call.face = ResultOf(<<3, 1>>, "u")
    /\ call.scene = None
    /\ call.out.result = call.face

RECURSIVE AllPersonsIds(_)
AllPersonsIds(people) ==
    IF Len(people) = 1 THEN Range(people[1].related_image_ids)
    ELSE Range(people[1].related_image_ids) \cap AllPersonsIds(Tail(people))

Advance == pc \notin {"END", "raised"} /\ pc' = NextNode(pc)

LiveSpec == Init /\ [][Next]_vars /\ WF_pc(Advance)

Errors == channels["errors"]
Extraction == Get(channels, "json_query_extraction", None)
ExtractedPeople == IF Extraction.tag = "dict" THEN Extraction.people ELSE <<>>
ExtractedScene == IF Extraction.tag = "dict" THEN Extraction.scene ELSE ""
SearchResults == Get(channels, "search_results", None)
PeopleResult == Get(channels, "face_detection_results_combined", None)
HasRun(node) == node \in Range(hist.trace)

\* C4: at the end of a run the errors list holds every message once, in
\* first-seen order.
C4_ErrorsDeduplicated == Done => Errors = Dedup(Errors)

\* C5: no exception leaves a node, and a run in which a call failed ends
\* with a non-empty errors list.
C5_NoExceptionEscapes ==
    /\ pc # "raised"
    /\ (Done /\ hist.failed # {}) => Errors # <<>>

\* A run has ended in which the text embedding of the Scene Resolver
\* failed and nothing else did.
C5_Witness ==
    /\ Done
    /\ hist.failed = {"searching_based_on_scene", "combine_searching_results"}
    /\ "_searching_based_on_scene_node: text embedding failed" \in Range(Errors)

TraceInOrder ==
    /\ Len(hist.trace) <= Len(NodeOrder)
    /\ hist.trace = SubSeq(NodeOrder, 1, Len(hist.trace))
    /\ Done => hist.trace = NodeOrder

\* C6: the nodes run in the fixed order, each at most once, also after a
\* node has recorded an error, and the run eventually reaches its end.
C6_FixedOrderToDone == <>(Done /\ hist.trace = NodeOrder)

\* A run in which the first node recorded an error has ended after all
\* five nodes ran.
C6_Witness ==
    /\ Done
    /\ "get_people_names_from_supabase" \in hist.failed
    /\ hist.trace = NodeOrder

\* C7: with no people and a scene extracted, and no call failing before
\* ComposeResults, ResolvePeople looks up no album and leaves the people
\* result empty, and the run ends with search_results equal to the Scene
\* Resolver's result and with no error.
C7_BranchSkip ==
    (/\ Done
     /\ Extraction.tag = "dict"
     /\ ExtractedPeople = <<>>
     /\ ExtractedScene # ""
     /\ hist.scene_out # None
     /\ hist.failed \subseteq {"combine_searching_results"})
    => /\ hist.lookups = <<>>
       /\ PeopleResult = None
       /\ SearchResults = hist.scene_out
       /\ Errors = <<>>

\* C8: one named person with an album, a scene, no stage failing: the run
\* ends without errors and search_results holds the ids common to the
\* person's album and the Scene Resolver's result.
C8_EndToEnd ==
    (/\ Done
     /\ Len(ExtractedPeople) = 1
     /\ ExtractedScene # ""
     /\ hist.scene_out # None
     /\ Len(hist.people_out) = 1
     /\ hist.failed = {})
    => /\ Errors = <<>>
       /\ Range(IdsOf(SearchResults)) =
              Range(hist.people_out[1].related_image_ids) \cap
              Range(IdsOf(hist.scene_out))

PeopleNodeErrors ==
    {"_searching_based_on_people_node: " \o m :
        m \in {DbError} \cup
              {"No albums found for person: " \o n : n \in Names} \cup
              {"No images found for related_image_ids of person: " \o n :
                  n \in Names}}

NoAlbum(name) == AlbumsOf(albums, name) = <<>>

UnparsableError ==
    "Error extracting JSON from LLM output: Failed to extract JSON data from LLM output"

ResolverNoneErrors ==
    {"_searching_based_on_people_node: " \o NoneTypeError,
     "_searching_based_on_scene_node: " \o NoneTypeError}

\* C11: when the language-model output cannot be parsed, InterpretQuery
\* records an error and the run goes on as with an empty extraction:
\* ResolvePeople and ResolveScene look nothing up and record no error of
\* their own.
C11_UnparsableAsEmpty ==
    (Done /\ UnparsableError \in Range(Errors)) =>
        /\ hist.lookups = <<>>
        /\ hist.scene_out = None
        /\ hist.failed \cap {"searching_based_on_people",
                             "searching_based_on_scene"} = {}
        /\ Range(Errors) \cap ResolverNoneErrors = {}

ComposeError == "_combine_searching_results_node: No search results provided"

\* C12: when neither a people result nor a scene result exists,
\* ComposeResults records the composer's failure and search_results keeps
\* its initial value None.
C12_NoCriteriaResolved ==
    (/\ HasRun("combine_searching_results")
     /\ ~Truthy(PeopleResult)
     /\ hist.scene_out = None)
    => /\ "combine_searching_results" \in hist.failed
       /\ ComposeError \in Range(Errors)
       /\ SearchResults = None

\* A run whose extraction named no person and no scene has ended with the
\* composer's error as its only failure.
C12_Witness ==
    /\ Done
    /\ Extraction.tag = "dict"
    /\ ExtractedPeople = <<>>
    /\ ExtractedScene = ""
    /\ hist.failed = {"combine_searching_results"}
    /\ ComposeError \in Range(Errors)
    /\ SearchResults = None

\* The links a result records for an image id: those at the positions of
\* the id that have a link.
UrlsFor(r, i) ==
    {LinksOf(r)[p] : p \in {q \in 1..Min(Len(IdsOf(r)), Len(LinksOf(r))) :
                                IdsOf(r)[q] = i}}

CommonIds == Range(IdsOf(call.face)) \cap Range(IdsOf(call.scene))

\* C13: after an intersection, the returned links hold, for every surviving
\* id, a link the people result records for it, or, when the people result
\* records none for it, a link of the scene result; no other link is
\* returned.
C13_PeopleUrlPreferred ==
    (CalledSearch /\ Truthy(call.face) /\ Truthy(call.scene)) =>
        LET links == Range(LinksOf(call.out.result))
        IN /\ \A i \in CommonIds :
                  /\ UrlsFor(call.face, i) # {} =>
                         UrlsFor(call.face, i) \cap links # {}
                  /\ (UrlsFor(call.face, i) = {} /\ UrlsFor(call.scene, i) # {})
                         => UrlsFor(call.scene, i) \cap links # {}
           /\ \A l \in links : \E i \in CommonIds :
                  \/ l \in UrlsFor(call.face, i)
                  \/ UrlsFor(call.face, i) = {} /\ l \in UrlsFor(call.scene, i)

\* Ids 1 and 2 survive; the people result records a link for 1 only, so 1
\* got the people result's link and 2 the scene result's.
C13_Witness ==
    /\ CalledSearch
    /\ call.face = ResultShort(<<1, 2>>, "u")
    /\ call.scene = ResultOf(<<1, 2>>, "w")
    /\ Range(LinksOf(call.out.result)) = {"u1", "w2"}

PeopleStageErrors ==
    PeopleNodeErrors \cup ResolverNoneErrors \cup
    {"_searching_based_on_people_node: " \o m :
        m \in {"No face detection results provided",
               "No valid related_image_ids or image_links found in face detection results",
               "No common images found"}}

AllLookedUp ==
    /\ Len(ExtractedPeople) >= 2
    /\ Len(hist.people_out) = Len(ExtractedPeople)

\* C14: when every named person (two or more) has an album and the albums
\* have no image in common, ResolvePeople stores an empty people result and
\* records no error.
C14_EmptyIntersectionIsResult ==
    (/\ HasRun("searching_based_on_people")
     /\ AllLookedUp
     /\ AllPersonsIds(hist.people_out) = {})
    => /\ PeopleResult = MkResult(<<>>, <<>>)
       /\ "searching_based_on_people" \notin hist.failed
       /\ Range(Errors) \cap PeopleStageErrors = {}

\* Two people with disjoint albums were looked up; the people result is
\* empty and no error has been recorded.
C14_Witness ==
    /\ HasRun("searching_based_on_people")
    /\ Len(hist.people_out) = 2
    /\ hist.people_out[1].related_image_ids # <<>>
    /\ hist.people_out[2].related_image_ids # <<>>
    /\ AllPersonsIds(hist.people_out) = {}
    /\ PeopleResult = MkResult(<<>>, <<>>)
    /\ Errors = <<>>

Responded == response # NoResponse

\* C15: the request is answered as failed (status 500), with the whole
\* errors list, exactly when the run's final errors list is non-empty;
\* otherwise it is answered with status 200 and search_results.
C15_FailedIffErrors ==
    Responded =>
        /\ response.status_code = 500 <=> Errors # <<>>
        /\ Errors # <<>> => response.detail = Errors
        /\ Errors = <<>> => /\ response.status_code = 200
                            /\ response.result = SearchResults

\* A run that found images but recorded an error has been answered as
\* failed with its errors.
C15_Witness ==
    /\ Responded
    /\ IdsOf(SearchResults) # <<>>
    /\ Errors # <<>>
    /\ response.status_code = 500
    /\ response.detail = Errors

(***************************************************************************)
(* The Album Builder: AlbumsService.get_all_images_embeddings,             *)
(* generate_albums, update_albums_table and the generate-albums endpoint.  *)
(* cropped_faces is the FaceRecord table.  A stored embedding is modelled  *)
(* by its format: "list" and "str" are usable, "badstr" (invalid JSON),    *)
(* "badlist" (non-numeric) and "other" are skipped.  Cosine similarities   *)
(* are integers scaled by 10000; sim maps a FaceRecord id to the           *)
(* similarity of its embedding to the reference face's embedding.          *)
(***************************************************************************)
MaxFaces == 3
MaxBuilds == 2

FaceIds == 1..MaxFaces

PersonNames == {"Alice", "alice", "bob"}

\* person_name.lower() on the names of the model
Lower(name) == IF name = "Alice" THEN "alice" ELSE name

UsableEmbedding(e) == e \in {"list", "str"}

get_all_images_embeddings(faces, project_id, dbOk) ==
    IF ~dbOk
    THEN [ok |-> FALSE, data |-> <<>>,
          message |-> "Error fetching image embeddings: " \o DbError]
    ELSE LET data == SelectSeq(faces, LAMBDA r : r.project_id = project_id)
         IN IF data = <<>>
            THEN [ok |-> TRUE, data |-> <<>>,
                  message |-> "No image embeddings found for this project"]
            ELSE [ok |-> TRUE,
                  data |-> SelectSeq(data,
                               LAMBDA r : UsableEmbedding(r.embedding)),
                  message |-> "Successfully fetched image embeddings"]

GenFail(msg) ==
    [ok |-> FALSE, related_indices |-> <<>>, related_image_ids |-> <<>>,
     message |-> msg]

threshold == 4000

\* Variant: only similarities above the threshold are selected.
RelatedIndices_strict(image_embeddings, sim) ==
    SelectSeq([i \in DOMAIN image_embeddings |-> i],
              LAMBDA i : sim[image_embeddings[i].id] > threshold)

\* np.where(similarities >= threshold)[0]: the positions, in order, of the
\* fetched embeddings whose similarity reaches the threshold.
RelatedIndices(image_embeddings, sim) ==
    SelectSeq([i \in DOMAIN image_embeddings |-> i],
              LAMBDA i : sim[image_embeddings[i].id] >= threshold)

\* Variant: when the reference embedding cannot be generated, every stored
\* image is returned.
generate_albums_partial(faces, image, person_name, project_id, dbOk, sim) ==
    LET fetched == get_all_images_embeddings(faces, project_id, dbOk)
        image_embeddings == fetched.data
        related_indices == RelatedIndices(image_embeddings, sim)
        err(m) == GenFail("Error generating related images: " \o m)
    IN IF ~fetched.ok
       THEN GenFail("Failed to fetch image embeddings: " \o fetched.message)
       ELSE IF image = "empty" THEN err("Empty image bytes provided")
       ELSE IF image = "undecodable" THEN err("Failed to decode image bytes")
       ELSE IF image = "noface" THEN err("No face detected in image: ")
       ELSE IF image = "manyfaces"
       THEN err("Multiple faces detected, please provide an image with a single face.")
       ELSE IF image = "zerofaces" THEN err("No faces detected in the image.")
       ELSE IF image = "embedfail"
       THEN [ok |-> TRUE,
             related_indices |-> [i \in DOMAIN image_embeddings |-> i],
             related_image_ids |-> [i \in DOMAIN image_embeddings |->
                                       image_embeddings[i].image_id],
             message |-> "Successfully generated related images"]
       ELSE IF image_embeddings = <<>>
       THEN err("No embeddings found in the database.")
       ELSE [ok |-> TRUE, related_indices |-> related_indices,
             related_image_ids |->
                 [j \in DOMAIN related_indices |->
                     image_embeddings[related_indices[j]].image_id],
             message |-> "Successfully generated related images"]

\* image is the uploaded reference image by what the decoder and DeepFace
\* make of it: "ok" (one face, embedding generated), "empty", "undecodable",
\* "noface" (extract_faces raises), "zerofaces", "manyfaces", "embedfail"
\* (represent raises).
generate_albums(faces, image, person_name, project_id, dbOk, sim) ==
    LET fetched == get_all_images_embeddings(faces, project_id, dbOk)
        image_embeddings == fetched.data
        related_indices == RelatedIndices(image_embeddings, sim)
        err(m) == GenFail("Error generating related images: " \o m)
    IN IF ~fetched.ok
       THEN GenFail("Failed to fetch image embeddings: " \o fetched.message)
       ELSE IF image = "empty" THEN err("Empty image bytes provided")
       ELSE IF image = "undecodable" THEN err("Failed to decode image bytes")
       ELSE IF image = "noface" THEN err("No face detected in image: ")
       ELSE IF image = "manyfaces"
       THEN err("Multiple faces detected, please provide an image with a single face.")
       ELSE IF image = "zerofaces" THEN err("No faces detected in the image.")
       ELSE IF image = "embedfail" THEN err("Error generating embeddings: ")
       ELSE IF image_embeddings = <<>>
       THEN err("No embeddings found in the database.")
       ELSE [ok |-> TRUE, related_indices |-> related_indices,
             related_image_ids |->
                 [j \in DOMAIN related_indices |->
                     image_embeddings[related_indices[j]].image_id],
             message |-> "Successfully generated related images"]

\* Variant: an empty list of image ids is inserted like any other.
update_albums_table_allow_empty(tbl, related_image_ids, person_name, project_id, dbOk) ==
    IF ~dbOk
    THEN [ok |-> FALSE, albums |-> tbl,
          message |-> "Failed to update albums table: " \o DbError]
    ELSE [ok |-> TRUE,
          albums |-> Append(tbl, [project_id |-> project_id,
                                  person_name |-> Lower(person_name),
                                  image_group |-> related_image_ids]),
          message |-> "Successfully updated albums table"]

update_albums_table(tbl, related_image_ids, person_name, project_id, dbOk) ==
    IF related_image_ids = <<>>
    THEN [ok |-> FALSE, albums |-> tbl,
          message |-> "Failed to update albums table: No related image IDs provided to update albums table."]
    ELSE IF ~dbOk
    THEN [ok |-> FALSE, albums |-> tbl,
          message |-> "Failed to update albums table: " \o DbError]
    ELSE [ok |-> TRUE,
          albums |-> Append(tbl, [project_id |-> project_id,
                                  person_name |-> Lower(person_name),
                                  image_group |-> related_image_ids]),
          message |-> "Successfully updated albums table"]

(***************************************************************************)
(* Specification of the generate-albums endpoint: up to MaxBuilds          *)
(* requests, each suspended between generate_albums and                    *)
(* update_albums_table, followed by one lookup of a person's album.        *)
(***************************************************************************)
\* Two FaceRecords per image: faces 1 and 2 are of image 1, face 3 of
\* image 2, and so on.
ImageOfFace(k) == (k + 1) \div 2

FaceRow(k, emb) ==
    [id |-> k, image_id |-> ImageOfFace(k), project_id |-> "p1",
     embedding |-> emb]

\* The FaceRecord table; the last record's embedding is stored in a usable
\* or in a malformed format.
FaceTables ==
    {[k \in FaceIds |-> FaceRow(k, IF k = MaxFaces THEN e ELSE "list")] :
        e \in {"list", "badstr"}}

AlbumSimValues == {3999, 4000}

NoFaceSim == [k \in FaceIds |-> 0]

NoAlbumResponse == [status_code |-> 0, detail |-> "", data |-> <<>>]

Idle ==
    [pc |-> "idle", person_name |-> "", project_id |-> "", image |-> "",
     fetchOk |-> TRUE, sim |-> NoFaceSim, related_indices |-> <<>>,
     related_image_ids |-> <<>>, response |-> NoAlbumResponse]

FailingImages ==
    {"empty", "undecodable", "noface", "zerofaces", "manyfaces", "embedfail"}

\* The requests that matter: one per failing stage, and for a request that
\* passes every stage each name and each similarity of the usable
\* FaceRecords.
BuildInputs ==
    {[person_name |-> "Alice", project_id |-> "p1", image |-> k,
      fetchOk |-> TRUE, sim |-> NoFaceSim] : k \in FailingImages}
    \cup
    {[person_name |-> "Alice", project_id |-> "p1", image |-> "ok",
      fetchOk |-> FALSE, sim |-> NoFaceSim],
     [person_name |-> "Alice", project_id |-> "p2", image |-> "ok",
      fetchOk |-> TRUE, sim |-> NoFaceSim]}
    \cup
    {[person_name |-> n, project_id |-> "p1", image |-> "ok",
      fetchOk |-> TRUE, sim |-> sm] :
        n \in PersonNames,
        sm \in {f \in [FaceIds -> AlbumSimValues \cup {0}] :
                   \A k \in FaceIds :
                       f[k] = 0 <=> ~UsableEmbedding(cropped_faces[k].embedding)}}

InitAlbum ==
    /\ albums = <<>>
    /\ images = [i \in 1..MaxImageId |-> ImageRow(i)]
    /\ request = [project_id |-> "p1", search_query |-> ""]
    /\ channels = EmptyChannels
    /\ pc = "albums"
    /\ hist = InitHist
    /\ call = NoCall
    /\ response = NoResponse
    /\ cropped_faces \in FaceTables
    /\ runs = <<>>
    /\ builds = [r \in 1..MaxBuilds |-> Idle]

\* generate_albums (endpoint), up to the return of
\* albums_service.generate_albums: a failure is answered with status 500.
GenerateAlbums(r) ==
    /\ builds[r].pc = "idle"
    /\ r > 1 => builds[r - 1].pc # "idle"
    /\ call = NoCall
    /\ \E inp \in BuildInputs :
         LET g == generate_albums(cropped_faces, inp.image, inp.person_name,
                                  inp.project_id, inp.fetchOk, inp.sim)
         IN builds' = [builds EXCEPT ![r] =
               IF g.ok
               THEN [pc |-> "generated", person_name |-> inp.person_name,
                     project_id |-> inp.project_id, image |-> inp.image,
                     fetchOk |-> inp.fetchOk, sim |-> inp.sim,
                     related_indices |-> g.related_indices,
                     related_image_ids |-> g.related_image_ids,
                     response |-> NoAlbumResponse]
               ELSE [pc |-> "done", person_name |-> inp.person_name,
                     project_id |-> inp.project_id, image |-> inp.image,
                     fetchOk |-> inp.fetchOk, sim |-> NoFaceSim,
                     related_indices |-> <<>>, related_image_ids |-> <<>>,
                     response |-> [status_code |-> 500, detail |-> g.message,
                                   data |-> <<>>]]]
    /\ UNCHANGED <<albums, images, request, channels, pc, hist, call,
                   response, cropped_faces, runs>>

\* generate_albums (endpoint), from the call of update_albums_table to the
\* answer.
UpdateAlbumsTable(r) ==
    /\ builds[r].pc = "generated"
    /\ \E dbOk \in BOOLEAN :
         LET b == builds[r]
             u == update_albums_table(albums, b.related_image_ids,
                                      b.person_name, b.project_id, dbOk)
         IN /\ albums' = u.albums
            /\ builds' = [builds EXCEPT ![r] =
                  [b EXCEPT !.pc = "done", !.sim = NoFaceSim,
                            !.related_indices = <<>>,
                            !.related_image_ids = <<>>,
                            !.response =
                                IF u.ok
                                THEN [status_code |-> 200, detail |-> "",
                                      data |-> b.related_image_ids]
                                ELSE [status_code |-> 500,
                                      detail |-> u.message, data |-> <<>>]]]
    /\ UNCHANGED <<images, request, channels, pc, hist, call, response,
                   cropped_faces, runs>>

\* A people resolution for one person once no request is in progress.
LookupPerson ==
    /\ call = NoCall
    /\ \A r \in DOMAIN builds : builds[r].pc # "generated"
    /\ \E n \in {Lower(x) : x \in PersonNames} :
         \E first \in 1..Len(AlbumsOf(albums, n)) :
           call' = [op |-> "get_related_images_for_person",
                    person_name |-> n,
                    out |-> get_related_images_for_person(albums, images, n,
                                                          TRUE, first)]
    /\ UNCHANGED <<albums, images, request, channels, pc, hist, response,
                   cropped_faces, builds, runs>>

NextAlbum ==
    \/ \E r \in 1..MaxBuilds : GenerateAlbums(r)
    \/ \E r \in 1..MaxBuilds : UpdateAlbumsTable(r)
    \/ LookupPerson

SpecAlbum == InitAlbum /\ [][NextAlbum]_vars

(***************************************************************************)
(* Properties of the Album Builder                                         *)
(***************************************************************************)
\* C16: the albums table holds at most one row per project and
\* (lower-cased) person name, whatever requests have been served.
C16_OneRowPerPerson ==
    \A i, j \in DOMAIN albums :
        (/\ albums[i].project_id = albums[j].project_id
         /\ albums[i].person_name = albums[j].person_name) => i = j

LookedUp == call.op = "get_related_images_for_person"

\* C17: once two requests for the same person have written their albums, a
\* people resolution for that person returns the image ids written last.
C17_LastWriteWins ==
    (/\ LookedUp
     /\ call.out.ok
     /\ Len(AlbumsOf(albums, call.person_name)) >= 2)
    => LET rows == AlbumsOf(albums, call.person_name)
       IN IdsOf(call.out.result) = rows[Len(rows)].image_group

\* A request fails in generate_albums when the embeddings cannot be
\* fetched, the reference image is unusable, or the project has no usable
\* stored embedding.
FailingInput(b) ==
    \/ ~b.fetchOk
    \/ b.image \in FailingImages
    \/ \A k \in DOMAIN cropped_faces :
           \/ cropped_faces[k].project_id # b.project_id
           \/ ~UsableEmbedding(cropped_faces[k].embedding)

Succeeded == {r \in DOMAIN builds : builds[r].response.status_code = 200}

\* C18: a request that fails at a stage of generate_albums is answered as
\* failed without reaching update_albums_table, and the albums table holds
\* exactly one row per request answered with success: no failed request
\* has written a row.
C18_NoWriteOnFailure ==
    /\ \A r \in DOMAIN builds :
           (builds[r].pc # "idle" /\ FailingInput(builds[r])) =>
               /\ builds[r].pc = "done"
               /\ builds[r].response.status_code = 500
    /\ Len(albums) = Cardinality(Succeeded)

\* After a request that wrote an album, a request whose embedding
\* generation failed has been answered and the table still has one row.
C18_Witness ==
    /\ builds[1].response.status_code = 200
    /\ builds[2].pc = "done"
    /\ builds[2].image = "embedfail"
    /\ builds[2].response.status_code = 500
    /\ Len(albums) = 1

\* C19: the image ids generate_albums returns hold each image id at most
\* once.
C19_IdsDeduplicated ==
    \A r \in DOMAIN builds :
        builds[r].pc = "generated" => NoRepeats(builds[r].related_image_ids)

\* The stored embeddings a request compares with, in the order fetched.
Candidates(b) ==
    SelectSeq(cropped_faces,
              LAMBDA f : f.project_id = b.project_id /\
                         UsableEmbedding(f.embedding))

\* C20: generate_albums selects a FaceRecord exactly when its similarity
\* is at least 0.4 (4000): 0.4 itself is selected, 0.3999 is not; the ids
\* returned are the image ids of the selected records.
C20_ThresholdInclusive ==
    \A r \in DOMAIN builds :
        builds[r].pc = "generated" =>
            LET b == builds[r]
                c == Candidates(b)
            IN /\ \A i \in DOMAIN c :
                      i \in Range(b.related_indices) <=> b.sim[c[i].id] >= 4000
               /\ Len(b.related_image_ids) = Len(b.related_indices)
               /\ \A j \in DOMAIN b.related_indices :
                      b.related_image_ids[j] = c[b.related_indices[j]].image_id

\* A request has selected a FaceRecord of similarity exactly 0.4 and left
\* out one of similarity 0.3999.
C20_Witness ==
    /\ builds[1].pc = "generated"
    /\ builds[1].sim[1] = 4000
    /\ builds[1].sim[2] = 3999
    /\ builds[1].related_indices = <<1>>
    /\ builds[1].related_image_ids = <<ImageOfFace(1)>>

\* The message of update_albums_table when it is given no image id.
NoIdsMessage ==
    "Failed to update albums table: No related image IDs provided to update albums table."

\* No stored embedding the request compares with reaches the threshold.
NoneReaches(b) ==
    \A i \in DOMAIN Candidates(b) : b.sim[Candidates(b)[i].id] < threshold

\* C30: every row of the albums table has a non-empty image_group and a
\* lower-cased person_name, and a success answer carries at least one
\* image id; when no FaceRecord reaches the threshold, the step of
\* update_albums_table inserts nothing and the request is answered with
\* status 500.
C30_NoEmptyAlbum ==
    /\ [](/\ \A i \in DOMAIN albums :
               /\ albums[i].image_group # <<>>
               /\ albums[i].person_name = Lower(albums[i].person_name)
          /\ \A r \in DOMAIN builds :
               builds[r].response.status_code = 200 =>
                   builds[r].response.data # <<>>)
    /\ [][\A r \in DOMAIN builds :
             (/\ builds[r].pc = "generated"
              /\ NoneReaches(builds[r])
              /\ builds'[r].pc = "done")
             => /\ albums' = albums
                /\ builds'[r].response.status_code = 500
                /\ builds'[r].response.detail = NoIdsMessage]_vars

\* A request named "Alice" has written the row of "alice", and a request
\* none of whose FaceRecords reached the threshold has been answered as
\* failed, the table still holding that one row.
C30_Witness ==
    /\ builds[1].person_name = "Alice"
    /\ builds[1].response.status_code = 200
    /\ builds[2].pc = "done"
    /\ builds[2].image = "ok"
    /\ builds[2].response.status_code = 500
    /\ builds[2].response.detail = NoIdsMessage
    /\ Len(albums) = 1
    /\ albums[1].person_name = "alice"
    /\ albums[1].image_group # <<>>

(***************************************************************************)
(* Specification of direct calls of the Scene Resolver.  Init draws the    *)
(* images table (each image's stored embedding in one of the formats), the *)
(* similarities and the outcome of the store and text-embedding calls; the *)
(* action applies get_images_based_on_scene.                               *)
(***************************************************************************)
MaxSceneImages == 3

SceneImageIds == 1..MaxSceneImages

EmbeddingFormats == {"list", "str", "badstr", "badlist", "other", "null"}

UsableFormat(fmt) == fmt \in {"list", "str"}

SceneRow(i, fmt) ==
    [id |-> i, project_id |-> "p1", image_url |-> Url(i),
     image_embeddings |-> fmt]

\* An image of another project, stored before the images of p1.
OtherProjectRow ==
    [id |-> MaxSceneImages + 1, project_id |-> "p2",
     image_url |-> Url(MaxSceneImages + 1), image_embeddings |-> "list"]

SceneImageTables ==
    {<<OtherProjectRow>> \o [i \in SceneImageIds |-> SceneRow(i, f[i])] :
        f \in [SceneImageIds -> EmbeddingFormats]}

SceneSimValues == {20, 25, 50, 90}

\* The similarities of a table: a value for every image of p1 whose
\* embedding is usable and for the image of p2, 0 for the others.
SceneSims(tbl) ==
    {f \in [1..(MaxSceneImages + 1) -> SceneSimValues \cup {0}] :
        /\ f[MaxSceneImages + 1] = 90
        /\ \A i \in SceneImageIds :
               f[i] = 0 <=> ~UsableFormat(tbl[i + 1].image_embeddings)}

InitScene ==
    /\ albums = <<>>
    /\ images \in SceneImageTables
    /\ request = [project_id |-> "p1", search_query |-> ""]
    /\ channels = EmptyChannels
    /\ pc = "direct"
    /\ hist = InitHist
    /\ response = NoResponse
    /\ cropped_faces = <<>>
    /\ builds = <<>>
    /\ runs = <<>>
    /\ call \in {[op |-> "get_images_based_on_scene", project_id |-> "p1",
                  dbOk |-> o[1], embedOk |-> o[2], sim |-> sm,
                  done |-> FALSE, out |-> Pending] :
                     o \in {<<TRUE, TRUE>>, <<FALSE, TRUE>>, <<TRUE, FALSE>>},
                     sm \in SceneSims(images)}

CallGetImagesBasedOnScene ==
    /\ call.op = "get_images_based_on_scene"
    /\ ~call.done
    /\ call' = [call EXCEPT !.done = TRUE,
                            !.out = get_images_based_on_scene(images,
                                        call.project_id, call.dbOk,
                                        call.embedOk, call.sim)]
    /\ UNCHANGED <<albums, images, request, channels, pc, hist, response,
                   cropped_faces, builds, runs>>

NextScene == CallGetImagesBasedOnScene

SpecScene == InitScene /\ [][NextScene]_vars

CalledScene == call.op = "get_images_based_on_scene" /\ call.done

ProjectRows == SelectSeq(images, LAMBDA r : r.project_id = call.project_id)

\* The images of the project that have a similarity of at least 0.25.
Matching ==
    {ProjectRows[k].id : k \in {j \in DOMAIN ProjectRows :
        /\ UsableFormat(ProjectRows[j].image_embeddings)
        /\ call.sim[ProjectRows[j].id] >= 25}}

StoredUrl(tbl, id) == (CHOOSE r \in Range(tbl) : r.id = id).image_url

\* C21: a successful Scene Resolver call returns exactly the images of the
\* project whose similarity is at least 0.25, each once, in non-increasing
\* order of similarity, and the link at each position is the stored URL of
\* the id at that position.
C21_SceneRanking ==
    (CalledScene /\ call.out.ok) =>
        LET ids == IdsOf(call.out.result)
            links == LinksOf(call.out.result)
        IN /\ Range(ids) = Matching
           /\ NoRepeats(ids)
           /\ \A i, j \in DOMAIN ids :
                  i < j => call.sim[ids[i]] >= call.sim[ids[j]]
           /\ Len(links) = Len(ids)
           /\ \A i \in DOMAIN ids : links[i] = StoredUrl(images, ids[i])

\* Similarities 0.5, 0.2, 0.9 for images 1, 2, 3: images 3 and 1 are
\* returned, in that order.
C21_Witness ==
    /\ CalledScene
    /\ call.sim[1] = 50
    /\ call.sim[2] = 20
    /\ call.sim[3] = 90
    /\ call.out.ok
    /\ IdsOf(call.out.result) = <<3, 1>>
    /\ LinksOf(call.out.result) = <<"u3", "u1">>

MalformedFormat(fmt) == fmt \in {"badstr", "badlist", "other"}

\* C22: when an image of the project has a malformed stored embedding and
\* the store and the text embedding answer, the Scene Resolver still
\* succeeds, with the result computed from the other images.
C22_MalformedSkipped ==
    (/\ CalledScene
     /\ call.dbOk
     /\ call.embedOk
     /\ \E k \in DOMAIN ProjectRows :
            MalformedFormat(ProjectRows[k].image_embeddings)
     /\ \E k \in DOMAIN ProjectRows :
            UsableFormat(ProjectRows[k].image_embeddings))
    => /\ call.out.ok
       /\ Range(IdsOf(call.out.result)) = Matching

(***************************************************************************)
(* Further properties of a pipeline run                                    *)
(***************************************************************************)
OwnProjectIds ==
    UNION {Range(albums[k].image_group) :
              k \in {j \in DOMAIN albums :
                        albums[j].project_id = request.project_id}}

\* C24: every image id of a run's people result, and of search_results
\* when a people result exists, is in an album of the run's own project.
C24_PeopleConfinedToProject ==
    (HasRun("searching_based_on_people") /\ Truthy(PeopleResult)) =>
        /\ Range(IdsOf(PeopleResult)) \subseteq OwnProjectIds
        /\ Done => Range(IdsOf(SearchResults)) \subseteq OwnProjectIds

OwnedFields(node) ==
    CASE node = "get_people_names_from_supabase" -> {"people_names"}
      [] node = "get_data_from_search_query" -> {"json_query_extraction"}
      [] node = "searching_based_on_people" ->
             {"face_detection_results", "face_detection_results_combined"}
      [] node = "searching_based_on_scene" -> {"scene_results"}
      [] node = "combine_searching_results" -> {"search_results"}
      [] OTHER -> {}

\* C25: a step in which a node fails leaves the fields the node owns as
\* they were before the node ran (absent fields stay absent).
C25_FailedNodeKeepsFields ==
    [][(pc \notin hist.failed /\ pc \in hist'.failed) =>
          \A f \in OwnedFields(pc) :
              /\ (f \in DOMAIN channels') = (f \in DOMAIN channels)
              /\ f \in DOMAIN channels => channels'[f] = channels[f]]_vars

\* C26: no step of a pipeline run changes the albums, images or FaceRecord
\* tables.
C26_StoreOnlyRead ==
    [][/\ albums' = albums
       /\ images' = images
       /\ cropped_faces' = cropped_faces]_vars

\* A run that read the albums of a named person and the images of the
\* project has ended.
C26_Witness ==
    /\ Done
    /\ hist.lookups # <<>>
    /\ hist.people_out # <<>>
    /\ hist.scene_out # None

ReportedErrors == hist.llm.kind = "json" /\ hist.llm.errors # <<>>

InterpretQueryErrors ==
    {"Error extracting JSON from LLM output: " \o StrList(e) :
        e \in LlmErrors \ {<<>>}}
    \cup {UnparsableError,
          "Error in _get_data_from_search_query_node: language model unavailable"}

\* C27: when the parsed output carries a non-empty errors list,
\* InterpretQuery stores the extracted people, emotions and scene and
\* records one error message; ResolvePeople and ResolveScene then act on
\* that extraction, and the run ends with a non-empty errors list and is
\* answered as failed, also when images were found.
C27_ErrorsKeepExtraction ==
    (HasRun("get_data_from_search_query") /\ ReportedErrors) =>
        /\ Extraction = [tag |-> "dict", people |-> hist.llm.people,
                         emotions |-> hist.llm.emotions,
                         scene |-> hist.llm.scene]
        /\ Range(Errors) \cap InterpretQueryErrors =
               {"Error extracting JSON from LLM output: "
                    \o StrList(hist.llm.errors)}
        /\ (HasRun("searching_based_on_people") /\ hist.llm.people # <<>>)
               => hist.lookups # <<>>
        /\ (HasRun("searching_based_on_scene") /\ hist.llm.scene # ""
              /\ "searching_based_on_scene" \notin hist.failed)
               => hist.scene_out # None
        /\ Done => Errors # <<>>
        /\ Responded => response.status_code = 500

\* The output named a person and carried an error: the person's images
\* were found and the request has been answered as failed.
C27_Witness ==
    /\ Responded
    /\ ReportedErrors
    /\ hist.people_out # <<>>
    /\ IdsOf(SearchResults) # <<>>
    /\ response.status_code = 500

\* The links of a result are as many as its ids and each is the stored
\* image_url of one of its ids.
Aligned(r) ==
    /\ Len(LinksOf(r)) = Len(IdsOf(r))
    /\ \A l \in Range(LinksOf(r)) :
           \E row \in Range(images) :
               row.image_url = l /\ row.id \in Range(IdsOf(r))

\* C28: the people result, the Scene Resolver's result and search_results
\* each have as many links as ids, every link being the stored URL of one
\* of the result's ids.
C28_LinksMatchIds ==
    /\ Truthy(PeopleResult) => Aligned(PeopleResult)
    /\ Truthy(hist.scene_out) => Aligned(hist.scene_out)
    /\ Truthy(SearchResults) => Aligned(SearchResults)

(***************************************************************************)
(* Specification of two concurrent requests.  Each request has its own    *)
(* ImageSearchingGraph and its own state; the nodes of the two runs are    *)
(* interleaved in any order.  What the store and the language model        *)
(* answer to a run is drawn with the run, so that the same run can be      *)
(* followed alone.                                                         *)
(***************************************************************************)
RunIds == {1, 2}

\* The store of the two runs: an album of alice in p1 and one of bob in p2.
TwoAlbums ==
    <<[project_id |-> "p1", person_name |-> "alice", image_group |-> <<1, 2>>],
      [project_id |-> "p2", person_name |-> "bob",
       image_group |-> <<MaxImageId>>]>>

\* The similarity of each image of the project to the scene text.
TwoSim(project_id) ==
    [i \in Ids |-> IF ProjectOf(i) # project_id THEN 0
                   ELSE IF i = 2 THEN 20 ELSE 90]

TwoLlmOutcomes ==
    {ll \in LlmOutcomes :
        ll.kind # "raise" /\ ll.people \in {<<>>, <<"alice">>}}

\* What the outside answers to a run: the language model's output and
\* whether the store answers the query for the known names.
RunEnvs == [llm : TwoLlmOutcomes, namesOk : BOOLEAN]

\* The node registered under a name, run on the state L of a run.
NodeOut(node, L, tbl, imgs, env) ==
    CASE node = "get_people_names_from_supabase" ->
             _get_people_names_from_supabase_node(L, tbl, env.namesOk)
      [] node = "get_data_from_search_query" ->
             _get_data_from_search_query_node(L, env.llm)
      [] node = "searching_based_on_people" ->
             _searching_based_on_people_node(L, tbl, imgs, {},
                                             [n \in Names |-> 1])
      [] node = "searching_based_on_scene" ->
             _searching_based_on_scene_node(L, imgs, TRUE, TRUE,
                                            TwoSim(L.d["project_id"]))
      [] node = "combine_searching_results" ->
             _combine_searching_results_node(L)

\* Variant: the errors list is one object shared by every run.
StateOf_shared(r) ==
    [runs[r].channels EXCEPT !["errors"] = runs[1].channels["errors"]]

\* The state of run r: the dict its own graph was invoked with.
StateOf(r) == runs[r].channels

InitTwo ==
    /\ albums = TwoAlbums
    /\ images = [i \in 1..MaxImageId |-> ImageRow(i)]
    /\ request = [project_id |-> "p1", search_query |-> ""]
    /\ channels = EmptyChannels
    /\ pc = "two"
    /\ hist = InitHist
    /\ call = NoCall
    /\ response = NoResponse
    /\ cropped_faces = <<>>
    /\ builds = <<>>
    /\ \E p \in Projects, q \in Queries, e1, e2 \in RunEnvs :
         runs = <<[pc |-> "START", channels |-> EmptyChannels,
                   request |-> [project_id |-> "p1", search_query |-> q],
                   env |-> e1, mixed |-> FALSE],
                  [pc |-> "START", channels |-> EmptyChannels,
                   request |-> [project_id |-> p, search_query |-> q],
                   env |-> e2, mixed |-> FALSE]>>

\* graph.ainvoke(initial_state) of run r
TwoInvoke(r) ==
    /\ runs[r].pc = "START"
    /\ runs' = [runs EXCEPT
                   ![r].channels =
                       ApplyWrites(StateOf(r),
                           [d |-> initial_state(runs[r].request),
                            chan |-> StateOf(r)["errors"],
                            aliased |-> FALSE]),
                   ![r].pc = NextNode("START")]
    /\ UNCHANGED <<albums, images, request, channels, pc, hist, call,
                   response, cropped_faces, builds>>

\* Run r executes its next node; mixed records that the other run was
\* under way at that moment.
TwoStep(r) ==
    /\ runs[r].pc \in Range(NodeOrder)
    /\ LET out == NodeOut(runs[r].pc, ReadState(StateOf(r)), albums, images,
                          runs[r].env)
       IN runs' = [runs EXCEPT
                      ![r].channels = ApplyWrites(StateOf(r), out.L),
                      ![r].pc = NextNode(runs[r].pc),
                      ![r].mixed = runs[r].mixed \/
                          \E o \in RunIds \ {r} :
                              runs[o].pc \in Range(NodeOrder)]
    /\ UNCHANGED <<albums, images, request, channels, pc, hist, call,
                   response, cropped_faces, builds>>

NextTwo ==
    \/ \E r \in RunIds : TwoInvoke(r)
    \/ \E r \in RunIds : TwoStep(r)

SpecTwo == InitTwo /\ [][NextTwo]_vars

(***************************************************************************)
(* Properties of two concurrent runs                                       *)
(***************************************************************************)
\* The final state of a run followed alone, from node on.
RECURSIVE RunFrom(_, _, _, _, _)
RunFrom(node, ch, tbl, imgs, env) ==
    IF node = "END" THEN ch
    ELSE RunFrom(NextNode(node),
                 ApplyWrites(ch, NodeOut(node, ReadState(ch), tbl, imgs,
                                         env).L),
                 tbl, imgs, env)

RunAlone(r) ==
    RunFrom(NextNode("START"),
            ApplyWrites(EmptyChannels,
                [d |-> initial_state(runs[r].request), chan |-> <<>>,
                 aliased |-> FALSE]),
            albums, images, runs[r].env)

Finished(r) == runs[r].pc = "END"

Outcome(ch) ==
    [search_results |-> Get(ch, "search_results", None),
     errors |-> ch["errors"]]

\* C23: whatever the interleaving of the nodes of two runs, a finished run
\* has the search_results and errors it has when followed alone on the
\* same store, and a step of one run leaves the state of the other as it
\* was.
C23_RunsIndependent ==
    /\ [](\A r \in RunIds :
              Finished(r) => Outcome(runs[r].channels) = Outcome(RunAlone(r)))
    /\ [][\A r \in RunIds :
             runs'[r] # runs[r] =>
                 \A o \in RunIds \ {r} : runs'[o] = runs[o]]_vars

\* Two runs of different projects, each with steps taken while the other
\* was under way, have finished: the first with errors and no result, the
\* second with a result and no error.
C23_Witness ==
    /\ Finished(1) /\ Finished(2)
    /\ runs[1].mixed /\ runs[2].mixed
    /\ runs[1].request.project_id # runs[2].request.project_id
    /\ Outcome(runs[1].channels).errors # <<>>
    /\ Outcome(runs[1].channels).search_results = None
    /\ Outcome(runs[2].channels).errors = <<>>
    /\ Outcome(runs[2].channels).search_results # None

\* The two runs have the same request and the same answers from outside,
\* except for the emotions of the extraction.
DifferOnlyInEmotions ==
    /\ runs[1].request = runs[2].request
    /\ runs[1].env.namesOk = runs[2].env.namesOk
    /\ runs[1].env.llm.kind = "json"
    /\ [runs[1].env.llm EXCEPT !.emotions = <<>>] =
       [runs[2].env.llm EXCEPT !.emotions = <<>>]
    /\ runs[1].env.llm.emotions # runs[2].env.llm.emotions

\* C29: two finished runs on the same store whose extractions differ only
\* in the emotions list have the same search_results and the same errors.
C29_EmotionsIgnored ==
    (Finished(1) /\ Finished(2) /\ DifferOnlyInEmotions) =>
        Outcome(runs[1].channels) = Outcome(runs[2].channels)

\* Two runs that name alice, one with and one without an emotion, have
\* finished with a result.
C29_Witness ==
    /\ Finished(1) /\ Finished(2)
    /\ DifferOnlyInEmotions
    /\ runs[1].env.llm.people = <<"alice">>
    /\ Outcome(runs[1].channels).search_results # None
    /\ Outcome(runs[1].channels).errors = <<>>

====
